---- MODULE Spec2Model ----
(***************************************************************************)
(* Orchestration core of the agent framework:                              *)
(*   - the fixed LangGraph pipeline agent1 -> agent2 -> agent3 -> agent4   *)
(*     with the supervisor node (app/langgraph/workflow_graph.py,          *)
(*     app/langgraph/agent_nodes.py);                                      *)
(*   - the collaboration sessions kept by AutomationWorkflowState          *)
(*     (app/langgraph/workflow_state.py);                                  *)
(*   - the routers as pure functions of the state dict;                    *)
(*   - resume_workflow and the checkpoints the compiled graph writes       *)
(*     when a checkpointer is attached.                                    *)
(*                                                                         *)
(* A Python dict is a function from its keys (strings) to values; the      *)
(* value None is the string "None" (for supervisor_decision, a record      *)
(* of kind "None").  A stage's domain logic (blueprint generation, code    *)
(* generation, testing, reporting) is an external collaborator: the only   *)
(* thing the core sees of it is whether it returns or raises.              *)
(***************************************************************************)
EXTENDS Naturals, Sequences, FiniteSets, TLC

VARIABLES
    \* ---- WorkflowGraphManager (one manager, one execute_workflow call) ----
    pc,             \* position inside execute_workflow
    initialized,    \* self.initialized
    checkpointer,   \* self.checkpointer is not None
    initial_state,  \* the dict the caller passes to execute_workflow
    state,          \* the state dict of the graph execution in progress
    node,           \* the node the graph executes next ("END" when finished)
    executed,       \* names of the nodes executed by this call, oldest first
    invokeBase,     \* Len(executed) when the current ainvoke started
    lastExec,       \* the last wrapped node execution: input, output, successor
    outcomes,       \* for each entry of executed: did its domain logic raise
    result,         \* what execute_workflow returned
    checkpoints,    \* the checkpoints stored under this call's thread, oldest first
    resumeCall,     \* the arguments of the resume_workflow call and where it started
    resumeResult,   \* what resume_workflow returned
    handles,        \* per SqliteSaver context entered: its number of __exit__ calls
    checkpointer_cm, \* self._checkpointer_cm: position in handles, NoHandle for None
    graph,          \* self.graph: "none", or how _build_workflow_graph compiled it
    \* ---- AutomationWorkflowState collaboration tracking ----
    collaboration_history,
    collaboration_active,
    collaboration_count,
    collaboration_requested,
    lastCall,       \* the last collaboration method called and how it ended
    \* ---- router probe ----
    probe,          \* the state dict handed to a router
    routed,         \* the router applied last and what it returned
    \* ---- the process: registry of managers, runs started ----
    registry,       \* _graph_managers: task id -> position in managers
    managers,       \* every WorkflowGraphManager created, oldest first
    clock,          \* the wall clock, in whole seconds
    runs,           \* checkpoint address -> number of runs started under it
    lastGet,        \* the last registry call and what it found and returned
    \* ---- two AutomationWorkflowState objects and two graph states ----
    class_lists,    \* the list objects that are attributes of the class
    instances,      \* per run: the attributes set on its state object
    run_states,     \* per run: the state dict of its graph execution
    actor,          \* the run that performed the last operation
    \* ---- a node applied to a state, with its log emissions ----
    applied,        \* the node applied last, its emissions, what it returned
    \* ---- tool-execution tracking of one state object ----
    tool_executions, \* self.tool_executions: the execution dicts, in logging order
    active_tools    \* self.active_tools: execution_id -> the dict at that position

runVars == <<pc, initialized, checkpointer, initial_state, state, node,
             executed, invokeBase, lastExec, outcomes, result,
             checkpoints, resumeCall, resumeResult>>
handleVars == <<handles, checkpointer_cm, graph>>
collabVars == <<collaboration_history, collaboration_active,
                collaboration_count, collaboration_requested, lastCall>>
routeVars == <<probe, routed>>
processVars == <<registry, managers, clock, runs, lastGet>>
sharedVars == <<class_lists, instances, run_states, actor>>
logVars == <<applied>>
toolVars == <<tool_executions, active_tools>>
otherVars == <<processVars, sharedVars, logVars, toolVars>>
vars == <<runVars, handleVars, collabVars, routeVars, otherVars>>

----------------------------------------------------------------------------
(* Bounds of the model *)

\* The graph library stops an ainvoke that has executed this many nodes
\* without reaching END and raises (its default recursion limit is 25); the
\* repository sets no limit of its own.
MaxSupersteps == 25

\* SqliteSaver contexts entered on one manager.
MaxHandles == 2

\* Task ids, managers created, seconds of the clock and runs started in
\* the process.
NumTasks == 2
MaxManagers == 2
MaxSeconds == 1
MaxRuns == 2

\* Appends to list fields of the state objects, and node executions per
\* run, of two runs side by side.
MaxAppends == 2
MaxRunSteps == 3

\* Collaboration sessions started / messages per session explored.
MaxSessions == 2
MaxMessages == 2

----------------------------------------------------------------------------
(* Python dict helpers *)

\* dict.get(key, default)
Get(d, k, default) == IF k \in DOMAIN d THEN d[k] ELSE default

\* dict.update(updates), on a copy
Update(d, u) ==
    [k \in (DOMAIN d) \cup (DOMAIN u) |-> IF k \in DOMAIN u THEN u[k] ELSE d[k]]

\* datetime.now().isoformat(): the clock read when a node finishes.  Time is
\* counted in node executions, so two executions never read the same value.
Now == Len(executed) + 1

Stages == {"agent1", "agent2", "agent3", "agent4"}
Nodes == Stages \cup {"supervisor"}

StatusKey(n) ==
    CASE n = "agent1" -> "agent1_status"
      [] n = "agent2" -> "agent2_status"
      [] n = "agent3" -> "agent3_status"
      [] n = "agent4" -> "agent4_status"

NoDecision == [kind |-> "None"]

----------------------------------------------------------------------------
(* The state dicts a caller hands to execute_workflow *)

\* A thin caller's dict: the identification fields only.
MinimalState ==
    [task_id |-> "task", instruction |-> "instr", platform |-> "web"]

\* The keyword arguments create_initial_state passes to the state class.
CreatedState ==
    [task_id |-> "task", platform |-> "web", instruction |-> "instr",
     document_data |-> "doc", screenshots |-> <<>>, additional_data |-> "{}",
     messages |-> <<>>, workflow_status |-> "initiated"]

\* The declared fields of AutomationWorkflowState with their defaults.
DeclaredState ==
    Update(CreatedState,
        [agent1_status |-> "pending", agent2_status |-> "pending",
         agent3_status |-> "pending", agent4_status |-> "pending",
         blueprint |-> "None", script_content |-> "",
         supervisor_decisions |-> <<>>, supervisor_decision |-> NoDecision,
         routing_history |-> <<>>, retry_count |-> 0, max_retries |-> 3,
         workflow_completed |-> FALSE,
         error_messages |-> <<>>, errors |-> <<>>])

InitialStates == {MinimalState, CreatedState, DeclaredState}

----------------------------------------------------------------------------
(* Agent nodes (agent_nodes.py).  Each returns [exc, updates]: exc is TRUE  *)
(* when an exception leaves the node, updates is the dict it returns.       *)
(* `raises` says whether the stage's domain logic, called inside the        *)
(* node's try block, raises.                                                *)

Returned(u) == [exc |-> FALSE, updates |-> u]

\* A stage 1 that writes the defaults of its reads into the identification
\* fields instead of the values read.
Agent1NodeDefaults(s, raises) ==
    Returned([task_id |-> Get(s, "task_id", "None"),
              instruction |-> "No instruction provided",
              platform |-> "unknown",
              document_data |-> Get(s, "document_data", "{}"),
              agent1_status |-> IF raises THEN "failed" ELSE "completed",
              agent1_completed_at |-> Now])

Agent1Node(s, raises) ==
    LET preserved ==
            [task_id |-> Get(s, "task_id", "None"),
             instruction |-> Get(s, "instruction", "No instruction provided"),
             platform |-> Get(s, "platform", "unknown"),
             document_data |-> Get(s, "document_data", "{}")]
    IN  IF ~raises
        THEN Returned(Update(preserved,
                [agent1_status |-> "completed",
                 blueprint |-> "blueprint",
                 ui_elements |-> "ui_elements",
                 workflow_steps |-> "workflow_steps",
                 agent1_completed_at |-> Now]))
        ELSE Returned(Update(preserved,
                [agent1_status |-> "failed",
                 error_messages |-> <<"Agent1 error">>,
                 agent1_completed_at |-> Now]))

Agent2Node(s, raises) ==
    LET preserved ==
            [task_id |-> Get(s, "task_id", "None"),
             instruction |-> Get(s, "instruction", ""),
             platform |-> Get(s, "platform", "unknown"),
             blueprint |-> Get(s, "blueprint", "{}"),
             ui_elements |-> Get(s, "ui_elements", "[]"),
             workflow_steps |-> Get(s, "workflow_steps", "[]")]
    IN  IF ~raises
        THEN Returned(Update(preserved,
                [agent2_status |-> "completed",
                 generated_code |-> "generated_code",
                 script_content |-> "script",
                 requirements_content |-> "requirements",
                 agent2_completed_at |-> Now]))
        ELSE Returned(Update(preserved,
                [agent2_status |-> "failed",
                 error_messages |-> <<"Agent2 error">>,
                 agent2_completed_at |-> Now]))

\* Agent3Node without its try block: the exception leaves the node.
Agent3NodeNoTry(s, raises) ==
    IF raises
    THEN [exc |-> TRUE, updates |-> <<>>]
    ELSE Returned(
            [task_id |-> Get(s, "task_id", "None"),
             instruction |-> Get(s, "instruction", ""),
             platform |-> Get(s, "platform", "unknown"),
             script_content |-> Get(s, "script_content", ""),
             agent3_status |-> "completed",
             environment_ready |-> TRUE,
             device_config |-> "device_config",
             testing_results |-> "testing_results",
             script_executed |-> TRUE,
             agent3_completed_at |-> Now])

Agent3Node(s, raises) ==
    LET preserved ==
            [task_id |-> Get(s, "task_id", "None"),
             instruction |-> Get(s, "instruction", ""),
             platform |-> Get(s, "platform", "unknown"),
             script_content |-> Get(s, "script_content", "")]
    IN  IF ~raises
        THEN Returned(Update(preserved,
                [agent3_status |-> "completed",
                 environment_ready |-> TRUE,
                 device_config |-> "device_config",
                 testing_results |-> "testing_results",
                 script_executed |-> TRUE,
                 agent3_completed_at |-> Now]))
        ELSE Returned(Update(preserved,
                [agent3_status |-> "failed",
                 environment_ready |-> FALSE,
                 error_messages |-> <<"Agent3 error">>,
                 agent3_completed_at |-> Now]))

\* Agent4 returns a copy of the whole state with its outputs written over it.
Agent4Node(s, raises) ==
    IF ~raises
    THEN Returned(Update(s,
            [agent4_status |-> "completed",
             final_results |-> "final_results",
             workflow_completed |-> TRUE,
             confidence |-> "confidence",
             agent4_completed_at |-> Now]))
    ELSE Returned(Update(s,
            [agent4_status |-> "failed",
             error_messages |-> <<"Agent4 error">>,
             workflow_completed |-> FALSE,
             agent4_completed_at |-> Now]))

\* SupervisorNode._make_routing_decision: the first failed stage decides.
\* A supervisor that gives up when stage 2 has failed.
MakeRoutingDecisionGivingUp(s) ==
    IF Get(s, "agent1_status", "None") = "failed"
    THEN [kind |-> "dict", next_agent |-> "agent2",
          reason |-> "Agent1 failed, attempting to continue with Agent2",
          retry_count |-> 1]
    ELSE [kind |-> "dict", next_agent |-> "end",
          reason |-> "giving up", retry_count |-> 0]

MakeRoutingDecision(s) ==
    IF Get(s, "agent1_status", "None") = "failed"
    THEN [kind |-> "dict", next_agent |-> "agent2",
          reason |-> "Agent1 failed, attempting to continue with Agent2",
          retry_count |-> 1]
    ELSE IF Get(s, "agent2_status", "None") = "failed"
    THEN [kind |-> "dict", next_agent |-> "agent3",
          reason |-> "Agent2 failed, proceeding to testing phase",
          retry_count |-> 1]
    ELSE IF Get(s, "agent3_status", "None") = "failed"
    THEN [kind |-> "dict", next_agent |-> "agent4",
          reason |-> "Agent3 failed, proceeding to final reporting",
          retry_count |-> 1]
    ELSE [kind |-> "dict", next_agent |-> "end",
          reason |-> "All agents completed or supervisor fallback not needed",
          retry_count |-> 0]

\* SupervisorNode.__call__: no try block; nothing it calls raises on a dict.
SupervisorNode(s) ==
    Returned(Update(s,
        [supervisor_decision |-> MakeRoutingDecision(s),
         supervisor_evaluated_at |-> Now]))

\* The node function registered under a node name.
NodeFn(n, s, raises) ==
    CASE n = "agent1" -> Agent1Node(s, raises)
      [] n = "agent2" -> Agent2Node(s, raises)
      [] n = "agent3" -> Agent3Node(s, raises)
      [] n = "agent4" -> Agent4Node(s, raises)
      [] n = "supervisor" -> SupervisorNode(s)

----------------------------------------------------------------------------
(* WorkflowGraphManager: wrapper, routers, edges (workflow_graph.py) *)

\* _wrap_node: merged = dict(state); merged.update(updates).  The wrapper has
\* no try block: an exception of the node function passes through it.
\* The wrapper returning the node's updates alone, without the merge.
WrapNodeUpdatesOnly(s, r) ==
    IF r.exc
    THEN [exc |-> TRUE, state |-> s]
    ELSE [exc |-> FALSE, state |-> r.updates]

WrapNode(s, r) ==
    IF r.exc
    THEN [exc |-> TRUE, state |-> s]
    ELSE [exc |-> FALSE, state |-> Update(s, r.updates)]

\* A router that diverts only on failed, and advances on anything else.
RouteFromAgent1UnlessFailed(s) ==
    IF Get(s, "agent1_status", "None") = "failed" THEN "supervisor"
    ELSE "agent2"

RouteFromAgent1(s) ==
    IF Get(s, "agent1_status", "None") = "completed" THEN "agent2"
    ELSE "supervisor"

RouteFromAgent2(s) ==
    IF Get(s, "agent2_status", "None") = "completed" THEN "agent3"
    ELSE "supervisor"

\* state.get("supervisor_decision", {}).get("next_agent", "end"); None has
\* no .get, so a None decision raises AttributeError.
RouteFromSupervisor(s) ==
    LET d == Get(s, "supervisor_decision", [kind |-> "dict"])
    IN  IF d.kind = "None" THEN "AttributeError"
        ELSE LET next_agent == Get(d, "next_agent", "end")
             IN  IF next_agent \in {"agent2", "agent3", "agent4"}
                 THEN next_agent ELSE "end"

\* The edges _build_workflow_graph adds: the node executed after n.
Successor(n, s) ==
    CASE n = "agent1" -> RouteFromAgent1(s)
      [] n = "agent2" -> RouteFromAgent2(s)
      [] n = "agent3" -> "agent4"
      [] n = "agent4" -> "END"
      [] n = "supervisor" ->
            LET to == RouteFromSupervisor(s)
            IN  IF to = "end" THEN "END" ELSE to


----------------------------------------------------------------------------
(* execute_workflow (workflow_graph.py), one step per node execution *)

NoExec == [node |-> "none", raised |-> FALSE, input |-> <<>>,
           output |-> <<>>, next |-> "none"]
NoResult == [kind |-> "none"]

\* checkpoint_id = None: the id left out of the call.  The ids of the stored
\* checkpoints are their positions in the thread, 1 the oldest.
NoCheckpointId == 0

NoResume == [thread_id |-> "none", checkpoint_id |-> NoCheckpointId,
             from |-> 0, step |-> 0, called_at |-> 0]

\* Nodes executed by the ainvoke in progress.
Steps == Len(executed) - invokeBase
CurrentExecution == SubSeq(executed, invokeBase + 1, Len(executed))

\* resumeCall: the thread_id and checkpoint_id passed, the position (from)
\* and step of the checkpoint found under them (from = 0: none found), and
\* the number of nodes the manager had executed when the call was made.

\* The thread id execute_workflow makes up for its call, and another one.
ThisThread == "workflow_task_1"
Threads == {ThisThread, "workflow_task_2"}

\* A checkpoint that keeps the state the run was started with instead of
\* the state after the node.
CheckpointOfInput(values, next, step) ==
    [values |-> initial_state, next |-> next, step |-> step]

\* A checkpoint of the graph library: the state values, the node to execute
\* next, and the number of nodes the thread had executed when it was written.
Checkpoint(values, next, step) ==
    [values |-> values, next |-> next, step |-> step]

\* Nodes the thread has executed when the ainvoke in progress has run Steps
\* nodes: a resumed ainvoke goes on counting from its checkpoint.
ThreadStep == IF pc = "resume" THEN resumeCall.step + Steps ELSE Steps

\* The graph compiled with a checkpointer writes a checkpoint after a node.
WriteCheckpoint(values, next) ==
    IF checkpointer /\ pc \in {"primary", "resume"}
    THEN Append(checkpoints, Checkpoint(values, next, ThreadStep + 1))
    ELSE checkpoints

\* initialize_graph, as execute_workflow calls it on a manager that is not
\* initialized: entering the SqliteSaver context may raise (the graph is then
\* compiled without a checkpointer), and building the nodes or the graph may
\* raise (initialization fails).
\*   enabled            the context is entered, the graph is built
\*   disabled_fallback  entering raises, the graph is built without it
\*   failed             the context is entered, building raises
\*   failed_disabled    entering raises, building raises
\*   failed_path        building the checkpoint path raises, before the
\*                      context is created
InitOutcomes == {"enabled", "disabled_fallback", "failed",
                 "failed_disabled", "failed_path"}

\* self._checkpointer_cm = None
NoHandle == 0

\* SqliteSaver.from_conn_string(uri).__enter__() returned
Enter(hs) == Append(hs, 0)

\* cm.__exit__(None, None, None), whether it returns or raises
Exit(hs, cm) == [hs EXCEPT ![cm] = @ + 1]

\* An initialize_graph whose except branch drops the context without
\* exiting it.
InitializeGraphNoCleanup(outcome) ==
    CASE outcome = "enabled" ->
           [success |-> TRUE, handles |-> Enter(handles),
            cm |-> Len(handles) + 1, checkpointer |-> TRUE]
      [] outcome = "disabled_fallback" ->
           [success |-> TRUE, handles |-> handles, cm |-> NoHandle,
            checkpointer |-> FALSE]
      [] outcome = "failed" ->
           [success |-> FALSE, handles |-> Enter(handles), cm |-> NoHandle,
            checkpointer |-> FALSE]
      [] OTHER ->
           [success |-> FALSE, handles |-> handles, cm |-> NoHandle,
            checkpointer |-> FALSE]

\* initialize_graph on a manager whose graph_available is true, whose
\* _checkpointer_cm is cm and whose checkpointer is set iff cp, hs being the
\* contexts entered so far: what it returns (success) and what it leaves in
\* self._checkpointer_cm and self.checkpointer.  The except branch exits
\* the context self._checkpointer_cm holds, if any, and then sets both
\* fields to None; self.initialized is set on success only.
InitializeGraphOn(outcome, cm, cp, hs) ==
    CASE outcome = "enabled" ->
           [success |-> TRUE, handles |-> Enter(hs),
            cm |-> Len(hs) + 1, checkpointer |-> TRUE]
      [] outcome = "disabled_fallback" ->
           [success |-> TRUE, handles |-> hs, cm |-> NoHandle,
            checkpointer |-> FALSE]
      [] outcome = "failed" ->
           [success |-> FALSE,
            handles |-> Exit(Enter(hs), Len(hs) + 1),
            cm |-> NoHandle, checkpointer |-> FALSE]
      [] outcome = "failed_disabled" ->
           [success |-> FALSE, handles |-> hs, cm |-> NoHandle,
            checkpointer |-> FALSE]
      [] outcome = "failed_path" ->
           [success |-> FALSE,
            handles |-> IF cm # NoHandle THEN Exit(hs, cm) ELSE hs,
            cm |-> NoHandle,
            checkpointer |-> IF cm # NoHandle THEN FALSE ELSE cp]

\* self.graph after initialize_graph, g being the graph before the call:
\* _build_workflow_graph compiles with the checkpointer when
\* self.checkpointer is set and without one otherwise; a call that fails
\* leaves the graph it found.
CompiledGraph(outcome, g) ==
    CASE outcome = "enabled" -> "checkpointed"
      [] outcome = "disabled_fallback" -> "plain"
      [] OTHER -> g

\* initialize_graph on the manager of the single-manager specifications.
InitializeGraph(outcome) ==
    InitializeGraphOn(outcome, checkpointer_cm, checkpointer, handles)

\* execute_workflow up to the first ainvoke.
ExecuteWorkflow ==
    /\ pc = "idle"
    /\ \E outcome \in (IF initialized THEN {"initialized"} ELSE InitOutcomes) :
         LET init == IF outcome = "initialized"
                     THEN [success |-> TRUE, handles |-> handles,
                           cm |-> checkpointer_cm,
                           checkpointer |-> checkpointer]
                     ELSE InitializeGraph(outcome)
         IN  /\ handles' = init.handles
             /\ checkpointer_cm' = init.cm
             /\ checkpointer' = init.checkpointer
             /\ graph' = CompiledGraph(outcome, graph)
             /\ IF ~init.success
                THEN /\ pc' = "done"
                     /\ result' = [kind |-> "failure", error |-> "init"]
                     /\ UNCHANGED <<initialized, state, node, checkpoints>>
                ELSE /\ initialized' = TRUE
                     /\ pc' = IF graph' = "checkpointed" /\ ~init.checkpointer
                              THEN "fallback" ELSE "primary"
                     /\ state' = initial_state
                     /\ node' = "agent1"
                     /\ checkpoints' =
                           IF init.checkpointer
                           THEN <<Checkpoint(initial_state, "agent1", 0)>>
                           ELSE checkpoints
                     /\ UNCHANGED result
    /\ UNCHANGED <<initial_state, executed, invokeBase, lastExec, outcomes,
                   resumeCall, resumeResult>>
    /\ UNCHANGED <<collabVars, routeVars, otherVars>>

\* The emergency fallback of execute_workflow: the same graph compiled again
\* without a checkpointer and invoked on initial_state.
StartFallback ==
    /\ pc' = "fallback"
    /\ state' = initial_state
    /\ node' = "agent1"
    /\ invokeBase' = Len(executed)
    /\ UNCHANGED <<initialized, checkpointer, initial_state, result,
                   checkpoints, resumeCall, resumeResult>>

\* The fallback's ainvoke raised too: execute_workflow returns the failure
\* dict of its outer except branch (success, task_id, thread_id, error,
\* error_type, workflow_completed, failed_at, execution_time_seconds).
ReturnFailure ==
    /\ pc' = "done"
    /\ result' = [kind |-> "failure", error |-> "invoke"]
    /\ UNCHANGED <<initialized, checkpointer, initial_state, state, node,
                   invokeBase, checkpoints, resumeCall, resumeResult>>

\* The ainvoke of resume_workflow raised: the call still returns success,
\* with resume_status resumed_failed and the error in place of the state.
ResumeFailed ==
    /\ pc' = "resumed"
    /\ resumeResult' = [kind |-> "success", resume_status |-> "resumed_failed",
                        final_state |-> [resumed_failed |-> TRUE,
                                         error |-> "error"]]
    /\ UNCHANGED <<initialized, checkpointer, initial_state, state, node,
                   invokeBase, result, checkpoints, resumeCall>>

\* What the call in progress does when its ainvoke raises.
InvokeRaises ==
    CASE pc = "primary" -> StartFallback
      [] pc = "fallback" -> ReturnFailure
      [] pc = "resume" -> ResumeFailed

\* One superstep of the compiled graph: the wrapped node n runs on the state
\* and the edges choose its successor.  An exception leaving the wrapper
\* makes ainvoke raise.
NodeStep(n, raises) ==
    /\ pc \in {"primary", "fallback", "resume"}
    /\ Steps < MaxSupersteps
    /\ LET r == WrapNode(state, NodeFn(n, state, raises))
       IN  IF r.exc
           THEN /\ executed' = Append(executed, n)
                /\ outcomes' = Append(outcomes, raises)
                /\ lastExec' = [node |-> n, raised |-> raises, input |-> state,
                                output |-> <<>>, next |-> "raise"]
                /\ InvokeRaises
           ELSE /\ state' = r.state
                /\ node' = Successor(n, r.state)
                /\ executed' = Append(executed, n)
                /\ outcomes' = Append(outcomes, raises)
                /\ lastExec' = [node |-> n, raised |-> raises, input |-> state,
                                output |-> r.state, next |-> Successor(n, r.state)]
                /\ checkpoints' = WriteCheckpoint(r.state, Successor(n, r.state))
                /\ UNCHANGED <<pc, initialized, checkpointer, initial_state,
                               invokeBase, result, resumeCall, resumeResult>>
    /\ UNCHANGED <<handleVars, collabVars, routeVars, otherVars>>

Agent1Step ==
    /\ node = "agent1"
    /\ \E raises \in BOOLEAN : NodeStep("agent1", raises)

Agent2Step ==
    /\ node = "agent2"
    /\ \E raises \in BOOLEAN : NodeStep("agent2", raises)

Agent3Step ==
    /\ node = "agent3"
    /\ \E raises \in BOOLEAN : NodeStep("agent3", raises)

Agent4Step ==
    /\ node = "agent4"
    /\ \E raises \in BOOLEAN : NodeStep("agent4", raises)

\* The supervisor calls no domain logic: its decision is computed from the
\* state alone.
SupervisorStep ==
    /\ node = "supervisor"
    /\ NodeStep("supervisor", FALSE)

\* The checkpoint store fails while the checkpointer-backed ainvoke of
\* execute_workflow runs (a checkpoint is written at the start and after
\* every node, the last one included).
CheckpointWriteRaises ==
    /\ pc = "primary"
    /\ checkpointer
    /\ InvokeRaises
    /\ UNCHANGED <<executed, lastExec, outcomes>>
    /\ UNCHANGED <<handleVars, collabVars, routeVars, otherVars>>

\* The ainvoke in progress reaches the recursion limit before END.
RecursionLimitRaises ==
    /\ pc \in {"primary", "fallback", "resume"}
    /\ node # "END"
    /\ Steps = MaxSupersteps
    /\ InvokeRaises
    /\ UNCHANGED <<executed, lastExec, outcomes>>
    /\ UNCHANGED <<handleVars, collabVars, routeVars, otherVars>>

\* ainvoke reached END: execute_workflow returns the final state.
\* A success result that tells nothing about how the run was executed.
SuccessResultUnmarked ==
    [kind |-> "success", execution_status |-> "completed",
     checkpointer_used |-> TRUE, final_state |-> state]

\* The dict execute_workflow returns after an ainvoke that returned:
\* success, final_state, execution_status (completed_fallback when the
\* emergency fallback produced the state) and checkpointer_used
\* (self.checkpointer is not None).
SuccessResult ==
    [kind |-> "success",
     execution_status |->
         IF pc = "primary" THEN "completed" ELSE "completed_fallback",
     checkpointer_used |-> checkpointer,
     final_state |-> state]

ReturnSuccess ==
    /\ pc \in {"primary", "fallback"}
    /\ node = "END"
    /\ pc' = "done"
    /\ result' = SuccessResult
    /\ UNCHANGED <<initialized, checkpointer, initial_state, state, node,
                   executed, invokeBase, lastExec, outcomes, checkpoints,
                   resumeCall, resumeResult>>
    /\ UNCHANGED <<handleVars, collabVars, routeVars, otherVars>>

----------------------------------------------------------------------------
(* resume_workflow (workflow_graph.py) *)

\* The checkpoint ids a caller may pass: none, the id of a stored
\* checkpoint, or an id under which nothing is stored.
CheckpointIds == 0..(Len(checkpoints) + 1)

\* A checkpoint is stored under (thread_id, checkpoint_id), the latest one
\* of the thread being meant when no id is given.
CheckpointExists(thread_id, checkpoint_id) ==
    /\ thread_id = ThisThread
    /\ checkpoints # <<>>
    /\ checkpoint_id <= Len(checkpoints)

CheckpointAt(checkpoint_id) ==
    IF checkpoint_id = NoCheckpointId THEN Len(checkpoints) ELSE checkpoint_id

\* What graph.get_state does for an address without a checkpoint is the
\* library's business: it returns something falsy, raises, or returns an
\* empty snapshot (and then ainvoke(None, config) finds no input and raises).
LookupOutcomes == {"falsy", "raises", "empty_snapshot"}

ResumeReturns(r) ==
    /\ pc' = "resumed"
    /\ resumeResult' = r
    /\ UNCHANGED <<state, node, invokeBase>>

\* resume_workflow up to its ainvoke.
ResumeWorkflow ==
    /\ pc \in {"idle", "done"}
    /\ resumeResult = NoResult
    /\ \E outcome \in (IF initialized THEN {"initialized"} ELSE InitOutcomes),
          thread_id \in Threads, checkpoint_id \in CheckpointIds,
          lookup \in LookupOutcomes :
         /\ resumeCall' = [thread_id |-> thread_id,
                           checkpoint_id |-> checkpoint_id,
                           from |-> IF CheckpointExists(thread_id, checkpoint_id)
                                    THEN CheckpointAt(checkpoint_id) ELSE 0,
                           step |-> IF CheckpointExists(thread_id, checkpoint_id)
                                    THEN checkpoints[CheckpointAt(checkpoint_id)].step
                                    ELSE 0,
                           called_at |-> Len(executed)]
         /\ handles' = IF outcome = "initialized" THEN handles
                        ELSE InitializeGraph(outcome).handles
         /\ checkpointer_cm' = IF outcome = "initialized" THEN checkpointer_cm
                                ELSE InitializeGraph(outcome).cm
         /\ checkpointer' = IF outcome = "initialized" THEN checkpointer
                             ELSE InitializeGraph(outcome).checkpointer
         /\ graph' = CompiledGraph(outcome, graph)
         /\ IF outcome # "initialized" /\ ~InitializeGraph(outcome).success
            THEN /\ ResumeReturns([kind |-> "failure", error |-> "init"])
                 /\ UNCHANGED initialized
            ELSE /\ initialized' = TRUE
                 /\ IF ~checkpointer'
                    THEN ResumeReturns([kind |-> "success",
                                        warning |-> "nothing to resume"])
                    ELSE IF ~CheckpointExists(thread_id, checkpoint_id)
                    THEN CASE lookup = "falsy" ->
                                ResumeReturns([kind |-> "failure",
                                               error |-> "No checkpoint found"])
                           [] lookup = "raises" ->
                                ResumeReturns([kind |-> "failure",
                                               error |-> "Could not retrieve checkpoint"])
                           [] lookup = "empty_snapshot" ->
                                ResumeReturns([kind |-> "success",
                                               resume_status |-> "resumed_failed",
                                               final_state |->
                                                  [resumed_failed |-> TRUE,
                                                   error |-> "error"]])
                    ELSE /\ pc' = "resume"
                         /\ state' = checkpoints[CheckpointAt(checkpoint_id)].values
                         /\ node' = checkpoints[CheckpointAt(checkpoint_id)].next
                         /\ invokeBase' = Len(executed)
                         /\ UNCHANGED resumeResult
    /\ UNCHANGED <<initial_state, executed, lastExec, outcomes, result,
                   checkpoints>>
    /\ UNCHANGED <<collabVars, routeVars, otherVars>>

\* The ainvoke of resume_workflow reached END: the call returns the state.
ResumeReturnSuccess ==
    /\ pc = "resume"
    /\ node = "END"
    /\ pc' = "resumed"
    /\ resumeResult' = [kind |-> "success", resume_status |-> "resumed_success",
                        final_state |-> state]
    /\ UNCHANGED <<initialized, checkpointer, initial_state, state, node,
                   executed, invokeBase, lastExec, outcomes, result,
                   checkpoints, resumeCall>>
    /\ UNCHANGED <<handleVars, collabVars, routeVars, otherVars>>

\* The checkpoint store fails while the ainvoke of resume_workflow runs.
ResumeCheckpointRaises ==
    /\ pc = "resume"
    /\ checkpointer
    /\ InvokeRaises
    /\ UNCHANGED <<executed, lastExec, outcomes>>
    /\ UNCHANGED <<handleVars, collabVars, routeVars, otherVars>>

RunInit ==
    /\ pc = "idle"
    /\ initialized = FALSE
    /\ checkpointer = FALSE
    /\ initial_state \in InitialStates
    /\ state = <<>>
    /\ node = "none"
    /\ executed = <<>>
    /\ invokeBase = 0
    /\ lastExec = NoExec
    /\ outcomes = <<>>
    /\ result = NoResult
    /\ checkpoints = <<>>
    /\ resumeCall = NoResume
    /\ resumeResult = NoResult
    /\ handles = <<>>
    /\ checkpointer_cm = NoHandle
    /\ graph = "none"

Next ==
    \/ ExecuteWorkflow
    \/ Agent1Step
    \/ Agent2Step
    \/ Agent3Step
    \/ Agent4Step
    \/ SupervisorStep
    \/ CheckpointWriteRaises
    \/ RecursionLimitRaises
    \/ ReturnSuccess

\* The other components at rest.
CollabIdle ==
    /\ collaboration_history = <<>>
    /\ collaboration_active = FALSE
    /\ collaboration_count = 0
    /\ collaboration_requested = FALSE
    /\ lastCall = [op |-> "none", outcome |-> "none", sealed |-> FALSE,
                   unchanged |-> TRUE]

RouteIdle ==
    /\ probe = <<>>
    /\ routed = [router |-> "none", to |-> "none"]

NoGet == [op |-> "none"]

\* _graph_managers = {} at import; no manager created, no run started.
ProcessIdle ==
    /\ registry = <<>>
    /\ managers = <<>>
    /\ clock = 0
    /\ runs = <<>>
    /\ lastGet = NoGet

\* No state object created.
SharedIdle ==
    /\ class_lists = <<>>
    /\ instances = <<>>
    /\ run_states = <<>>
    /\ actor = "none"

NoApplied == [node |-> "none"]

LogIdle == applied = NoApplied

ToolsIdle ==
    /\ tool_executions = <<>>
    /\ active_tools = <<>>

OthersIdle == ProcessIdle /\ SharedIdle /\ LogIdle /\ ToolsIdle

Init == RunInit /\ CollabIdle /\ RouteIdle /\ OthersIdle

Spec == Init /\ [][Next]_vars

\* A manager on which the caller, after execute_workflow or instead of it,
\* calls resume_workflow once.  The run starts from the state
\* create_initial_state builds, and the checkpoint store does not fail
\* while execute_workflow runs (that case is Spec's).
ResumeInit ==
    /\ RunInit
    /\ initial_state = DeclaredState

ResumeNext ==
    \/ ExecuteWorkflow
    \/ Agent1Step
    \/ Agent2Step
    \/ Agent3Step
    \/ Agent4Step
    \/ SupervisorStep
    \/ RecursionLimitRaises
    \/ ReturnSuccess
    \/ ResumeWorkflow
    \/ ResumeCheckpointRaises
    \/ ResumeReturnSuccess

InitResume == ResumeInit /\ CollabIdle /\ RouteIdle /\ OthersIdle

SpecResume == InitResume /\ [][ResumeNext]_vars

----------------------------------------------------------------------------
(* Properties of a run *)

Range(seq) == {seq[i] : i \in 1..Len(seq)}

IsPrefix(a, b) == Len(a) <= Len(b) /\ SubSeq(b, 1, Len(a)) = a

SupervisorVisits(seq) ==
    Cardinality({i \in 1..Len(seq) : seq[i] = "supervisor"})

NumStages == Cardinality(Stages)

\* A wrapped node has run and returned a state.
NodeReturned == lastExec.node # "none" /\ lastExec.next # "raise"

\* C1: every wrapped node execution returns a state whose keys include all
\* the keys of the state it was given, also when the node reports failure.
C1_KeysPreserved ==
    NodeReturned => (DOMAIN lastExec.input) \subseteq (DOMAIN lastExec.output)

\* A failing agent2 was given keys it does not return itself, and the
\* wrapper's result still holds them.
C1_Witness ==
    /\ lastExec.node = "agent2"
    /\ lastExec.raised
    /\ {"workflow_status", "document_data", "agent1_status"}
            \subseteq DOMAIN lastExec.input
    /\ lastExec.output["agent2_status"] = "failed"

\* C2: the supervisor is visited at most NumStages times in a run, and the
\* run ends at the terminal node (it is not cut off inside a loop).
C2_ForwardProgress ==
    /\ SupervisorVisits(CurrentExecution) <= NumStages
    /\ (pc = "done" /\ initialized) => node = "END"

\* C3: the node the supervisor routes to is a stage that has not been
\* executed yet in the graph execution in progress.
C3_NeverBackward ==
    (lastExec.node = "supervisor" /\ lastExec.next \in Stages)
        => lastExec.next \notin Range(CurrentExecution)

\* The stage whose router sent control to the supervisor that ran last.
EnteredFrom == executed[Len(executed) - 1]

\* C4: the supervisor routes by the stage whose failure sent control to it:
\* after stage 1 to stage 2, after stage 2 to stage 3, after stage 3 to
\* stage 4, and to the end when no stage has failed.
C4_PolicyTable ==
    lastExec.node = "supervisor" =>
        LET failed == {a \in Stages :
                          Get(lastExec.input, StatusKey(a), "None") = "failed"}
        IN  /\ (EnteredFrom = "agent1" /\ "agent1" \in failed)
                    => lastExec.next = "agent2"
            /\ (EnteredFrom = "agent2" /\ "agent2" \in failed)
                    => lastExec.next = "agent3"
            /\ (EnteredFrom = "agent3" /\ "agent3" \in failed)
                    => lastExec.next = "agent4"
            /\ failed = {} => lastExec.next = "END"

C6_ErrorsAppendOnly ==
    NodeReturned =>
        IsPrefix(Get(lastExec.input, "error_messages", <<>>),
                 Get(lastExec.output, "error_messages", <<>>))

\* C8: whenever a stage finishes with a status other than completed, the
\* node executed next is the supervisor.
C8_FailureGoesToSupervisor ==
    (NodeReturned /\ lastExec.node \in Stages
        /\ lastExec.output[StatusKey(lastExec.node)] # "completed")
        => lastExec.next = "supervisor"

\* C9: once an agent's status is completed or failed, no later state of the
\* run has it pending or running.
C9_StatusNeverRegresses ==
    [][\A a \in Stages :
          Get(state, StatusKey(a), "None") \in {"completed", "failed"}
              => Get(state', StatusKey(a), "None") \notin {"pending", "running"}]_vars

----------------------------------------------------------------------------
(* Routers as pure functions: a router applied to a state dict *)

StatusValues == {"pending", "running", "completed", "failed"}

\* Dicts that hold any subset of the keys the routers read.
StatusDicts(key) == {<<>>} \cup {Update(<<>>, [k \in {key} |-> v]) : v \in StatusValues}

DecisionDicts ==
    {<<>>, [supervisor_decision |-> NoDecision],
           [supervisor_decision |-> [kind |-> "dict"]]}
    \cup {[supervisor_decision |-> [kind |-> "dict", next_agent |-> a]] :
            a \in {"agent1", "agent2", "agent3", "agent4", "supervisor", "end"}}

ProbeStates ==
    {Update(Update(Update(MinimalState, s1), s2), d) :
        s1 \in StatusDicts("agent1_status"),
        s2 \in StatusDicts("agent2_status"),
        d \in DecisionDicts}

\* dict.setdefault(key, default): a read that inserts a missing key.
AfterSetdefault(d, k, default) ==
    IF k \in DOMAIN d THEN d ELSE Update(d, [x \in {k} |-> default])

\* The dict a router was handed, after the router's state.get(key): the
\* routers do nothing else with the state (they read one key and log).
AfterGet(d, k, default) == d

ApplyRouteFromAgent1 ==
    /\ routed' = [router |-> "agent1", to |-> RouteFromAgent1(probe)]
    /\ probe' = AfterGet(probe, "agent1_status", "None")
    /\ UNCHANGED <<runVars, handleVars, collabVars, otherVars>>

ApplyRouteFromAgent2 ==
    /\ routed' = [router |-> "agent2", to |-> RouteFromAgent2(probe)]
    /\ probe' = AfterGet(probe, "agent2_status", "None")
    /\ UNCHANGED <<runVars, handleVars, collabVars, otherVars>>

ApplyRouteFromSupervisor ==
    /\ routed' = [router |-> "supervisor", to |-> RouteFromSupervisor(probe)]
    /\ probe' = AfterGet(probe, "supervisor_decision", [kind |-> "dict"])
    /\ UNCHANGED <<runVars, handleVars, collabVars, otherVars>>

RunIdle ==
    /\ pc = "idle"
    /\ initialized = FALSE
    /\ checkpointer = FALSE
    /\ initial_state = MinimalState
    /\ state = <<>>
    /\ node = "none"
    /\ executed = <<>>
    /\ invokeBase = 0
    /\ lastExec = NoExec
    /\ outcomes = <<>>
    /\ result = NoResult
    /\ checkpoints = <<>>
    /\ resumeCall = NoResume
    /\ resumeResult = NoResult
    /\ handles = <<>>
    /\ checkpointer_cm = NoHandle
    /\ graph = "none"

RouteInit ==
    /\ probe \in ProbeStates
    /\ routed = [router |-> "none", to |-> "none"]

RouteNext ==
    \/ ApplyRouteFromAgent1
    \/ ApplyRouteFromAgent2
    \/ ApplyRouteFromSupervisor

InitRoute == RouteInit /\ RunIdle /\ CollabIdle /\ OthersIdle

SpecRoute == InitRoute /\ [][RouteNext]_vars

\* C7: the router of a stage returns the next pipeline stage exactly when
\* the stage's status is completed, and supervisor for every other status,
\* an absent status included.
C7_RouterRule ==
    /\ routed.router = "agent1" =>
          IF "agent1_status" \in DOMAIN probe /\ probe["agent1_status"] = "completed"
          THEN routed.to = "agent2" ELSE routed.to = "supervisor"
    /\ routed.router = "agent2" =>
          IF "agent2_status" \in DOMAIN probe /\ probe["agent2_status"] = "completed"
          THEN routed.to = "agent3" ELSE routed.to = "supervisor"

\* Stage 2's router was given a state without agent2_status, and stage 1's
\* cases are reached alike (see C7_RouterRule's other conjunct).
C7_Witness ==
    /\ routed.router = "agent2"
    /\ "agent2_status" \notin DOMAIN probe
    /\ routed.to = "supervisor"

----------------------------------------------------------------------------
(* Collaboration sessions of AutomationWorkflowState (workflow_state.py).   *)
(* A session is a dict; collaboration_history[-1] is the session the        *)
(* methods work on.  None of the three methods raises or returns a value.   *)

\* The tester asks the code generator for a fix; the messages exchanged.
AgentPairs == {<<"agent3", "agent2">>}
Messages == {<<"agent3", "agent2", "fix_request">>,
             <<"agent2", "agent3", "fix_applied">>}
Resolutions == {"None", "Code fixed"}

LastSession == collaboration_history[Len(collaboration_history)]

\* The session addressed by a call made now is sealed by end_collaboration.
LastSessionSealed ==
    /\ collaboration_history # <<>>
    /\ LastSession["status"] \in {"completed", "failed"}

\* f"collab_{n}"
SessionId(n) == <<"collab_", n>>

NewSession(requesting_agent, target_agent, n) ==
    [session_id |-> SessionId(n),
     requesting_agent |-> requesting_agent,
     target_agent |-> target_agent,
     request_data |-> "request",
     status |-> "active",
     started_at |-> "ts",
     messages |-> <<>>]

NewMessage(from_agent, to_agent, message_type) ==
    [from_agent |-> from_agent, to_agent |-> to_agent,
     message_type |-> message_type, content |-> "content", timestamp |-> "ts"]

\* The append landing on the oldest session instead of the last one.
AppendToFirst(history, message) ==
    [history EXCEPT ![1] =
        Update(@, [messages |-> Append(@["messages"], message)])]

\* current_session["messages"].append(message) on the last session
AppendToLast(history, message) ==
    [history EXCEPT ![Len(history)] =
        Update(@, [messages |-> Append(@["messages"], message)])]

\* the writes of end_collaboration on the last session
SealLast(history, success, resolution) ==
    [history EXCEPT ![Len(history)] =
        Update(@, [status |-> IF success THEN "completed" ELSE "failed",
                   ended_at |-> "ts",
                   resolution |->
                       IF resolution # "None" THEN resolution
                       ELSE IF success THEN "Success" ELSE "Failed"])]

\* What a call did, as its caller sees it.
CallRecord(op, outcome, after) ==
    [op |-> op, outcome |-> outcome, sealed |-> LastSessionSealed,
     unchanged |-> (after = collaboration_history)]

StartCollaboration ==
    /\ Len(collaboration_history) < MaxSessions
    /\ \E pair \in AgentPairs :
         collaboration_history' =
            Append(collaboration_history,
                   NewSession(pair[1], pair[2], Len(collaboration_history) + 1))
    /\ collaboration_active' = TRUE
    /\ collaboration_count' = collaboration_count + 1
    /\ collaboration_requested' = TRUE
    /\ lastCall' = CallRecord("start_collaboration", "returned",
                              collaboration_history')
    /\ UNCHANGED <<runVars, handleVars, routeVars, otherVars>>

AddCollaborationMessage ==
    /\ \E m \in Messages :
         IF collaboration_active /\ collaboration_history # <<>>
         THEN /\ Len(LastSession["messages"]) < MaxMessages
              /\ collaboration_history' =
                    AppendToLast(collaboration_history,
                                 NewMessage(m[1], m[2], m[3]))
         ELSE UNCHANGED collaboration_history
    /\ lastCall' = CallRecord("add_collaboration_message", "returned",
                              collaboration_history')
    /\ UNCHANGED <<collaboration_active, collaboration_count,
                   collaboration_requested>>
    /\ UNCHANGED <<runVars, handleVars, routeVars, otherVars>>

EndCollaboration ==
    /\ \E success \in BOOLEAN, resolution \in Resolutions :
         IF collaboration_active /\ collaboration_history # <<>>
         THEN /\ collaboration_history' =
                    SealLast(collaboration_history, success, resolution)
              /\ collaboration_active' = FALSE
         ELSE UNCHANGED <<collaboration_history, collaboration_active>>
    /\ lastCall' = CallRecord("end_collaboration", "returned",
                              collaboration_history')
    /\ UNCHANGED <<collaboration_count, collaboration_requested>>
    /\ UNCHANGED <<runVars, handleVars, routeVars, otherVars>>

CollabNext ==
    \/ StartCollaboration
    \/ AddCollaborationMessage
    \/ EndCollaboration

InitCollab == CollabIdle /\ RunIdle /\ RouteIdle /\ OthersIdle

SpecCollab == InitCollab /\ [][CollabNext]_vars

\* C10: an add_collaboration_message call made on a session that
\* end_collaboration has sealed fails with a Protocol error reported to the
\* caller, and leaves the session's message list unchanged.
C10_AppendAfterEndFails ==
    (lastCall.op = "add_collaboration_message" /\ lastCall.sealed) =>
        /\ lastCall.outcome = "protocol_error"
        /\ lastCall.unchanged

\* A session of the history is sealed: end_collaboration has set its status.
Sealed(session) == session["status"] \in {"completed", "failed"}

----------------------------------------------------------------------------
(* resume_workflow and the checkpoints (SpecResume) *)

\* resume_workflow has returned.
Resumed == pc = "resumed"

\* C12: a resume_workflow call for an address under which no checkpoint is
\* stored (a manager without a checkpointer included) returns a failure
\* to its caller, executes no node and leaves the state as it was; it does
\* not return success.
C12_ResumeNotFound ==
    (Resumed /\ resumeCall.from = 0) =>
        /\ resumeResult.kind = "failure"
        /\ Len(executed) = resumeCall.called_at

\* The fields a node stamps with the time of its execution.
TimeFields == {"agent1_completed_at", "agent2_completed_at",
               "agent3_completed_at", "agent4_completed_at",
               "supervisor_evaluated_at"}

StripTimes(s) == [k \in (DOMAIN s) \ TimeFields |-> s[k]]

\* execute_workflow ran its checkpointer-backed ainvoke to END, and
\* resume_workflow, called with the checkpoint written after a node of that
\* run, ran to END as well, each stage it executed again ending as it had
\* ended in the run.
RoundTrip ==
    /\ Resumed
    /\ result.kind = "success"
    /\ result.execution_status = "completed"
    /\ resumeCall.from >= 2
    /\ resumeResult.kind = "success"
    /\ resumeResult.resume_status = "resumed_success"
    /\ \A i \in 1..Steps :
          /\ resumeCall.step + i <= invokeBase
          /\ outcomes[invokeBase + i] = outcomes[resumeCall.step + i]

C14_ResumeNeverReexecutes ==
    (pc \in {"resume", "resumed"} /\ resumeCall.from > 0) =>
        /\ Steps >= 1 =>
              /\ executed[invokeBase + 1] = checkpoints[resumeCall.from].next
              /\ Steps = 1 => lastExec.input = checkpoints[resumeCall.from].values
        /\ \A i \in 1..Steps :
              executed[invokeBase + i] \in Stages =>
                  \A j \in 1..resumeCall.step :
                      executed[j] # executed[invokeBase + i]


----------------------------------------------------------------------------
(* The order of node executions within one execute_workflow call (Spec) *)

\* The nodes the compiled graph executes from node n on state s when the
\* stages end as outs says (TRUE: the stage's domain logic raises), one
\* entry of outs per node executed.
RECURSIVE Walk(_, _, _)
Walk(s, n, outs) ==
    IF n = "END" \/ outs = <<>>
    THEN <<>>
    ELSE LET r == WrapNode(s, NodeFn(n, s, Head(outs)))
         IN  <<n>> \o Walk(r.state, Successor(n, r.state), Tail(outs))

\* execute_workflow has returned on a manager whose graph was built.
Done == pc = "done" /\ initialized

\* C15: when opening the checkpoint store raised, the run on the graph
\* compiled without it still completes, and the nodes it executes and the
\* statuses it ends with are those of the graph's one pass from stage 1
\* under the same stage outcomes, as in a durable-backed run.
C15_NonDurableSameRun ==
    (Done /\ ~checkpointer) =>
        /\ result.kind = "success"
        /\ executed = Walk(initial_state, "agent1", outcomes)
        /\ \A a \in Stages :
              Get(result.final_state, StatusKey(a), "None")
                  = IF \E i \in 1..Len(executed) : executed[i] = a /\ ~outcomes[i]
                    THEN "completed"
                    ELSE IF a \in Range(executed) THEN "failed"
                    ELSE Get(initial_state, StatusKey(a), "None")

\* C16: within one execute_workflow call the first node executed is stage
\* 1 and every later node is the successor the edges chose from the
\* state the node before it returned; the pipeline is not started again
\* from stage 1 once a node of the call has executed.
C16_RouterOrder ==
    [][Len(executed') > Len(executed) =>
          executed'[Len(executed')] =
              IF executed = <<>> THEN "agent1" ELSE lastExec.next]_vars

\* C17: a supervisor visit appends exactly one entry to supervisor_decisions,
\* with from_node the stage whose failure led to the visit and to_node the
\* node chosen next.
C17_DecisionRecorded ==
    (lastExec.node = "supervisor" /\ NodeReturned) =>
        LET before == Get(lastExec.input, "supervisor_decisions", <<>>)
            after == Get(lastExec.output, "supervisor_decisions", <<>>)
        IN  /\ Len(after) = Len(before) + 1
            /\ SubSeq(after, 1, Len(before)) = before
            /\ after[Len(after)]["from_node"] = EnteredFrom
            /\ after[Len(after)]["to_node"] = lastExec.next

\* C18: at every point of a graph execution retry_count equals the number
\* of supervisor visits made so far in it.
C18_RetryCountCountsVisits ==
    pc \in {"primary", "fallback"} =>
        Get(state, "retry_count", 0) = SupervisorVisits(CurrentExecution)

\* max_retries of a state dict (the state class declares 3).
MaxRetries(s) == Get(s, "max_retries", 3)

\* C19: a supervisor visit that takes the number of visits (which is what
\* retry_count counts) above max_retries, or that finds retry_count above
\* max_retries in the state, routes to the end and not to a stage.
C19_RetryCap ==
    (lastExec.node = "supervisor" /\ NodeReturned
        /\ \/ SupervisorVisits(CurrentExecution) > MaxRetries(lastExec.input)
           \/ Get(lastExec.input, "retry_count", 0) > MaxRetries(lastExec.input))
        => lastExec.next = "END"

\* C20: when execute_workflow returns after a call in which no stage
\* execution raised, the final state has the four statuses completed, the
\* supervisor was not visited, and stage 1, stage 2, stage 3, stage 4 were
\* each executed exactly once, in that order.
C20_HappyPath ==
    (Done /\ result.kind = "success" /\ \A i \in 1..Len(outcomes) : ~outcomes[i])
        => /\ \A a \in Stages : result.final_state[StatusKey(a)] = "completed"
           /\ executed = <<"agent1", "agent2", "agent3", "agent4">>

----------------------------------------------------------------------------
(* routing_history, the returned result, the identification fields *)

\* C21: at every point of a run, routing_history in the shared state is the
\* ordered list of the names of the nodes executed so far in that run.
C21_RoutingHistoryIsVisits ==
    pc \in {"primary", "fallback"}
        => Get(state, "routing_history", <<>>) = CurrentExecution

\* C22: when execute_workflow returns on a manager whose graph was built,
\* the result carries the terminal shared state (the state the run ended
\* in), whether stages failed or graph execution raised.
C22_ResultCarriesState ==
    Done => /\ "final_state" \in DOMAIN result
            /\ result.final_state = state

\* C28: in every state of a run, task_id, instruction and platform have the
\* values they had in the initial state.
IdentificationFields == {"task_id", "instruction", "platform"}

C28_IdentificationKept ==
    pc \in {"primary", "fallback", "done"} /\ initialized
        => \A f \in IdentificationFields :
               /\ f \in DOMAIN state
               /\ state[f] = initial_state[f]

C28_Witness ==
    /\ pc = "fallback"
    /\ Len(executed) >= 4
    /\ "supervisor" \in Range(executed)
    /\ \E i \in 1..Len(outcomes) : outcomes[i]
    /\ \A f \in IdentificationFields : state[f] = initial_state[f]

----------------------------------------------------------------------------
(* The checkpoint-store handle *)

InitFailed == pc = "done" /\ result = [kind |-> "failure", error |-> "init"]

\* C30: when initialize_graph fails, execute_workflow returns that failure,
\* no node has been executed, the manager is left not initialized, and every
\* checkpoint handle entered during the attempt has been exited (once).
C30_InitFailureAborts ==
    InitFailed
        => /\ executed = <<>>
           /\ state = <<>>
           /\ ~initialized
           /\ checkpointer_cm = NoHandle
           /\ \A h \in 1..Len(handles) : handles[h] = 1

\* The context was entered, building the graph raised, the context was exited.
C30_Witness ==
    /\ InitFailed
    /\ handles = <<1>>
    /\ ~initialized

----------------------------------------------------------------------------
(* One manager called by its owner: initialize_graph, execute_workflow and  *)
(* close in any order, the direct calls made before or after the run.  A    *)
(* run started after close finds self.checkpointer None and passes an empty *)
(* config to the graph close left in place, which was compiled with the     *)
(* checkpointer: that ainvoke raises for want of a thread_id and the run is *)
(* executed by the emergency fallback.                                      *)

\* await manager.initialize_graph(), called directly.
InitializeGraphCall ==
    /\ pc \in {"idle", "done"}
    /\ Len(handles) < MaxHandles
    /\ \E outcome \in InitOutcomes :
         LET init == InitializeGraph(outcome)
         IN  /\ handles' = init.handles
             /\ checkpointer_cm' = init.cm
             /\ checkpointer' = init.checkpointer
             /\ graph' = CompiledGraph(outcome, graph)
             /\ initialized' = (initialized \/ init.success)
    /\ UNCHANGED <<pc, initial_state, state, node, executed, invokeBase,
                   lastExec, outcomes, result, checkpoints, resumeCall,
                   resumeResult>>
    /\ UNCHANGED <<collabVars, routeVars, otherVars>>

\* manager.close()
Close ==
    /\ pc \in {"idle", "done"}
    /\ handles' = IF checkpointer_cm # NoHandle
                  THEN Exit(handles, checkpointer_cm) ELSE handles
    /\ checkpointer_cm' = NoHandle
    /\ checkpointer' = IF checkpointer_cm # NoHandle THEN FALSE ELSE checkpointer
    /\ UNCHANGED graph
    /\ UNCHANGED <<pc, initialized, initial_state, state, node, executed,
                   invokeBase, lastExec, outcomes, result, checkpoints,
                   resumeCall, resumeResult>>
    /\ UNCHANGED <<collabVars, routeVars, otherVars>>

HandlesInit ==
    /\ RunInit
    /\ initial_state = MinimalState

HandlesNext ==
    \/ InitializeGraphCall
    \/ Close
    \/ ExecuteWorkflow
    \/ Agent1Step
    \/ Agent2Step
    \/ Agent3Step
    \/ Agent4Step
    \/ SupervisorStep
    \/ CheckpointWriteRaises
    \/ RecursionLimitRaises
    \/ ReturnSuccess

InitHandles == HandlesInit /\ CollabIdle /\ RouteIdle /\ OthersIdle

SpecHandles == InitHandles /\ [][HandlesNext]_vars

\* C23: every checkpoint-store handle is released exactly once: no handle
\* is ever exited twice, and when close returns, every handle that was
\* entered on the manager has been exited.
C23_HandlesReleasedOnce ==
    [][/\ \A h \in 1..Len(handles') : handles'[h] <= 1
       /\ Close => \A h \in 1..Len(handles') : handles'[h] = 1]_vars

----------------------------------------------------------------------------
(* A stage node applied to a state, with its status-event emissions *)
(* (agent_nodes.py)                                                  *)

\* The emissions of one stage execution: "started" and "completed" inside
\* the node's try block, "failed" inside its except branch.
LogEvents == {"started", "completed", "failed"}

\* An emission helper without the try block: the collaborator's exception
\* leaves the call.
SafeDatabaseCallNoCatch(fails) ==
    [exc |-> fails, value |-> IF fails THEN "None" ELSE "logged"]

\* safe_database_call: the whole body is inside try / except Exception,
\* which logs a warning and returns None.  `fails` says whether the
\* database manager (or the method called on it) raises.
SafeDatabaseCall(fails) ==
    [exc |-> FALSE, value |-> IF fails THEN "None" ELSE "logged"]

\* A stage's __call__ with its emissions: an exception of "started", of the
\* domain logic or of "completed" is caught by the node's except branch,
\* which emits "failed" outside any try block.
NodeWithEmissions(n, s, raises, fails) ==
    LET inTry == \/ SafeDatabaseCall("started" \in fails).exc
                 \/ raises
                 \/ (~raises /\ SafeDatabaseCall("completed" \in fails).exc)
    IN  IF inTry /\ SafeDatabaseCall("failed" \in fails).exc
        THEN [exc |-> TRUE, updates |-> <<>>]
        ELSE NodeFn(n, s, inTry)

\* The wrapped node run on probe, and the node the graph goes to next.
Applied(n, raises, fails) ==
    LET r == WrapNode(probe, NodeWithEmissions(n, probe, raises, fails))
    IN  [node |-> n, raises |-> raises, fails |-> fails,
         exc |-> r.exc, state |-> r.state,
         next |-> IF r.exc THEN "raise" ELSE Successor(n, r.state)]

ApplyNode(n) ==
    /\ \E raises \in BOOLEAN, fails \in SUBSET LogEvents :
         applied' = Applied(n, raises, fails)
    /\ UNCHANGED <<runVars, handleVars, collabVars, routeVars,
                   processVars, sharedVars, toolVars>>

ApplyAgent1Node == ApplyNode("agent1")
ApplyAgent2Node == ApplyNode("agent2")
ApplyAgent3Node == ApplyNode("agent3")
ApplyAgent4Node == ApplyNode("agent4")

LogNext ==
    \/ ApplyAgent1Node
    \/ ApplyAgent2Node
    \/ ApplyAgent3Node
    \/ ApplyAgent4Node

LogInit ==
    /\ probe \in ProbeStates
    /\ routed = [router |-> "none", to |-> "none"]
    /\ applied = NoApplied

InitLog ==
    /\ LogInit /\ RunIdle /\ CollabIdle /\ ProcessIdle /\ SharedIdle
    /\ ToolsIdle

SpecLog == InitLog /\ [][LogNext]_vars

\* C27: a failure of a status-event emission has no effect on the run: the
\* state a node execution yields and the node chosen next are the ones the
\* same execution yields when every emission succeeds.
C27_EmissionFailureSwallowed ==
    applied.node # "none" =>
        LET quiet == Applied(applied.node, applied.raises, {})
        IN  /\ applied.exc = quiet.exc
            /\ applied.state = quiet.state
            /\ applied.next = quiet.next

\* Stage 3 completed although its started and completed emissions failed.
C27_Witness ==
    /\ applied.node = "agent3"
    /\ ~applied.raises
    /\ applied.fails = {"started", "completed"}
    /\ ~applied.exc
    /\ applied.state["agent3_status"] = "completed"
    /\ applied.next = "agent4"

----------------------------------------------------------------------------
(* The process: the registry of managers and the runs started on them.     *)
(* get_workflow_graph_manager and cleanup_graph_managers are synchronous   *)
(* functions called from coroutines of one event loop, so each call is one *)
(* step.  A caller keeps the manager it got, so execute_workflow can be    *)
(* called on a manager that is no longer registered.  Of a run, the steps  *)
(* that touch the process-wide state are modelled: initialize_graph and    *)
(* the checkpoint address chosen before ainvoke.                           *)

Tasks == 1..NumTasks

NewManager(task) ==
    [task_id |-> task, initialized |-> FALSE, checkpointer |-> FALSE,
     cm |-> NoHandle, entered |-> {}]

\* A registry function that creates a manager on every call.
GetAlwaysCreates(task) ==
    [managers |-> Append(managers, NewManager(task)),
     registry |-> Update(registry, [t \in {task} |-> Len(managers) + 1]),
     manager |-> Len(managers) + 1]

\* get_workflow_graph_manager(task_id): the manager returned, and the
\* registry and the managers after the call.
GetResult(task) ==
    IF task \in DOMAIN registry
    THEN [managers |-> managers, registry |-> registry,
          manager |-> registry[task]]
    ELSE [managers |-> Append(managers, NewManager(task)),
          registry |-> Update(registry, [t \in {task} |-> Len(managers) + 1]),
          manager |-> Len(managers) + 1]

GetWorkflowGraphManager ==
    /\ \E task \in Tasks :
         /\ Len(GetResult(task).managers) <= MaxManagers
         /\ managers' = GetResult(task).managers
         /\ registry' = GetResult(task).registry
         /\ lastGet' = [op |-> "get", task |-> task,
                        manager |-> GetResult(task).manager,
                        found |-> task \in DOMAIN registry]
    /\ UNCHANGED <<clock, runs, sharedVars, logVars, toolVars>>
    /\ UNCHANGED <<runVars, handleVars, collabVars, routeVars>>

\* manager.close() on each registered manager, then _graph_managers.clear().
Registered == {registry[t] : t \in DOMAIN registry}

CleanupGraphManagers ==
    /\ handles' = [h \in 1..Len(handles) |->
                      IF \E m \in Registered : managers[m].cm = h
                      THEN handles[h] + 1 ELSE handles[h]]
    /\ managers' = [m \in 1..Len(managers) |->
                       IF m \in Registered /\ managers[m].cm # NoHandle
                       THEN [managers[m] EXCEPT !.cm = NoHandle,
                                                !.checkpointer = FALSE]
                       ELSE managers[m]]
    /\ registry' = <<>>
    /\ lastGet' = [op |-> "cleanup"]
    /\ UNCHANGED <<clock, runs, sharedVars, logVars, toolVars>>
    /\ UNCHANGED <<runVars, checkpointer_cm, graph, collabVars, routeVars>>

\* f"workflow_task_{self.task_id}_{int(datetime.now().timestamp())}"
DefaultThreadId(task) == <<"workflow_task", task, clock>>

\* f"task-{self.task_id}"
CheckpointNs(task) == <<"task", task>>

\* The configurable of a run with a checkpointer: where its checkpoints go.
CheckpointAddress(task) ==
    [thread_id |-> DefaultThreadId(task), checkpoint_ns |-> CheckpointNs(task)]

\* runs after one more run has been started under address a.
StartedUnder(a) ==
    [x \in DOMAIN runs \cup {a} |->
        IF x = a THEN (IF a \in DOMAIN runs THEN runs[a] + 1 ELSE 1)
        ELSE runs[x]]

RECURSIVE SumOver(_, _)
SumOver(f, S) ==
    IF S = {} THEN 0
    ELSE LET x == CHOOSE y \in S : TRUE
         IN  f[x] + SumOver(f, S \ {x})

\* The runs started with a checkpointer attached.
RunsStarted == SumOver(runs, DOMAIN runs)

\* execute_workflow(initial_state) on manager m, without a thread_id: the
\* manager is initialized if it is not, and with a checkpointer attached the
\* run's checkpoints go under thread_id and checkpoint_ns.
ManagerExecuteWorkflow ==
    /\ RunsStarted < MaxRuns
    /\ \E m \in 1..Len(managers) :
         /\ managers[m].initialized \/ Len(handles) < MaxHandles
         /\ \E outcome \in (IF managers[m].initialized THEN {"initialized"}
                             ELSE InitOutcomes) :
              LET mgr == managers[m]
                  init == IF outcome = "initialized"
                          THEN [success |-> TRUE, handles |-> handles,
                                cm |-> mgr.cm, checkpointer |-> mgr.checkpointer]
                          ELSE InitializeGraphOn(outcome, mgr.cm,
                                                 mgr.checkpointer, handles)
              IN  /\ handles' = init.handles
                  /\ managers' =
                        [managers EXCEPT ![m] =
                            [task_id |-> mgr.task_id,
                             initialized |-> mgr.initialized \/ init.success,
                             checkpointer |-> init.checkpointer,
                             cm |-> init.cm,
                             entered |-> mgr.entered \cup
                                (Len(handles) + 1 .. Len(init.handles))]]
                  /\ runs' = IF init.success /\ init.checkpointer
                             THEN StartedUnder(CheckpointAddress(mgr.task_id))
                             ELSE runs
    /\ UNCHANGED <<registry, clock, lastGet, sharedVars, logVars, toolVars>>
    /\ UNCHANGED <<runVars, checkpointer_cm, graph, collabVars, routeVars>>

\* A second of wall-clock time passes.
Tick ==
    /\ clock < MaxSeconds
    /\ clock' = clock + 1
    /\ UNCHANGED <<registry, managers, runs, lastGet, sharedVars, logVars, toolVars>>
    /\ UNCHANGED <<runVars, handleVars, collabVars, routeVars>>

ProcessNext ==
    \/ GetWorkflowGraphManager
    \/ ManagerExecuteWorkflow
    \/ CleanupGraphManagers

InitProcess ==
    /\ ProcessIdle /\ RunIdle /\ CollabIdle /\ RouteIdle /\ SharedIdle
    /\ LogIdle /\ ToolsIdle

SpecProcess == InitProcess /\ [][ProcessNext]_vars

\* The same process with the wall clock advancing between the calls.
AddressNext ==
    \/ GetWorkflowGraphManager
    \/ ManagerExecuteWorkflow
    \/ CleanupGraphManagers
    \/ Tick

InitAddress ==
    /\ ProcessIdle /\ RunIdle /\ CollabIdle /\ RouteIdle /\ SharedIdle
    /\ LogIdle /\ ToolsIdle

SpecAddress == InitAddress /\ [][AddressNext]_vars

\* C24: at most one manager is registered per task id; a get for a task id
\* that is registered returns the manager registered for it; and when
\* cleanup_graph_managers returns, the registry is empty and every manager
\* that was registered holds no checkpoint handle, each context it entered
\* having been exited once.
C24_RegistrySafe ==
    [][/\ \A t \in Tasks :
            Cardinality({m \in {registry'[u] : u \in DOMAIN registry'} :
                            managers'[m].task_id = t}) <= 1
       /\ \A t \in DOMAIN registry' : managers'[registry'[t]].task_id = t
       /\ (GetWorkflowGraphManager /\ lastGet'.task \in DOMAIN registry)
            => /\ lastGet'.manager = registry[lastGet'.task]
               /\ registry' = registry
       /\ CleanupGraphManagers
            => /\ registry' = <<>>
               /\ \A m \in Registered :
                     /\ managers'[m].cm = NoHandle
                     /\ \A h \in managers'[m].entered : handles'[h] = 1]_vars

\* Two tasks are registered, the manager of one holds an entered context,
\* and a get for that task has returned the registered manager.
C24_Witness ==
    /\ DOMAIN registry = Tasks
    /\ lastGet.op = "get"
    /\ lastGet.found
    /\ lastGet.manager = registry[lastGet.task]
    /\ managers[lastGet.manager].cm # NoHandle
    /\ handles[managers[lastGet.manager].cm] = 0

\* C26: two distinct execute_workflow runs never write checkpoints under
\* the same (thread_id, checkpoint namespace) pair.
C26_OwnCheckpointAddress ==
    \A a \in DOMAIN runs : runs[a] <= 1

----------------------------------------------------------------------------
(* Two runs side by side: each has a state object (AutomationWorkflowState, *)
(* workflow_state.py) whose methods are called, and a state dict that the   *)
(* wrapped nodes transform.  An attribute that was never assigned on an     *)
(* object is read from the class, where the declared defaults live.         *)

RunNames == {"A", "B"}

Other(r) == IF r = "A" THEN "B" ELSE "A"

\* The fields declared with a list default: one list object each, held by
\* the class.
ClassListFields ==
    {"routing_history", "errors", "error_messages", "collaboration_history",
     "supervisor_decisions"}

\* The declared defaults of the other fields the methods read or write.
ClassDefaults ==
    [current_agent |-> "None", previous_agent |-> "None",
     current_phase_started_at |-> "None",
     collaboration_requested |-> FALSE, collaboration_active |-> FALSE,
     collaboration_count |-> 0, supervisor_decision |-> NoDecision,
     last_error |-> "None"]

\* The class attributes and the objects' own attributes.
Heap == [cls |-> class_lists, inst |-> instances]

\* self.<f>, read on the object of run r
AttrIn(h, r, f) ==
    IF f \in DOMAIN h.inst[r] THEN h.inst[r][f]
    ELSE IF f \in DOMAIN h.cls THEN h.cls[f]
    ELSE ClassDefaults[f]

\* self.<f> = v
SetAttr(h, r, f, v) ==
    [h EXCEPT !.inst[r] = Update(@, [k \in {f} |-> v])]

\* self.<f>.append(x): the list found by the attribute lookup is changed
\* in place.
AppendAttr(h, r, f, x) ==
    IF f \in DOMAIN h.inst[r]
    THEN [h EXCEPT !.inst[r][f] = Append(@, x)]
    ELSE [h EXCEPT !.cls[f] = Append(@, x)]

\* Every field of the state of run r, as read through its object.
ViewIn(h, r) ==
    [f \in ClassListFields \cup DOMAIN ClassDefaults \cup DOMAIN h.inst[r]
        |-> AttrIn(h, r, f)]

ViewOf(r) == ViewIn(Heap, r)

Appended ==
    Len(class_lists["routing_history"]) + Len(class_lists["errors"])
      + Len(class_lists["collaboration_history"])
      + Len(class_lists["supervisor_decisions"])

StateOperation(r, h) ==
    /\ class_lists' = h.cls
    /\ instances' = h.inst
    /\ actor' = r
    /\ UNCHANGED run_states
    /\ UNCHANGED <<runVars, handleVars, collabVars, routeVars,
                   processVars, logVars, toolVars>>

\* state.update_current_agent(agent_name)
UpdateCurrentAgentOn ==
    /\ Appended < MaxAppends
    /\ \E r \in RunNames, agent_name \in {"agent1", "agent2", "supervisor"} :
         LET h1 == SetAttr(Heap, r, "previous_agent",
                           AttrIn(Heap, r, "current_agent"))
             h2 == SetAttr(h1, r, "current_agent", agent_name)
             h3 == SetAttr(h2, r, "current_phase_started_at", Now)
         IN  StateOperation(r,
                IF agent_name # "supervisor"
                THEN AppendAttr(h3, r, "routing_history", agent_name)
                ELSE h3)

\* state.add_supervisor_decision(decision_type, from_node, to_node, ...)
AddSupervisorDecisionOn ==
    /\ Appended < MaxAppends
    /\ \E r \in RunNames :
         LET decision ==
                 [kind |-> "dict",
                  decision_id |->
                      Len(AttrIn(Heap, r, "supervisor_decisions")) + 1,
                  from_node |-> "supervisor", to_node |-> "agent2"]
         IN  StateOperation(r,
                SetAttr(AppendAttr(Heap, r, "supervisor_decisions", decision),
                        r, "supervisor_decision", decision))

\* state.start_collaboration(requesting_agent, target_agent, request_data)
StartCollaborationOn ==
    /\ Appended < MaxAppends
    /\ \E r \in RunNames :
         LET session ==
                 [session_id |->
                      Len(AttrIn(Heap, r, "collaboration_history")) + 1,
                  status |-> "active", messages |-> <<>>]
             h1 == AppendAttr(Heap, r, "collaboration_history", session)
             h2 == SetAttr(h1, r, "collaboration_active", TRUE)
             h3 == SetAttr(h2, r, "collaboration_count",
                           AttrIn(h2, r, "collaboration_count") + 1)
         IN  StateOperation(r, SetAttr(h3, r, "collaboration_requested", TRUE))

\* state.add_error(error_type, error_message, agent_name)
AddErrorOn ==
    /\ Appended < MaxAppends
    /\ \E r \in RunNames :
         LET error == [error_id |-> Len(AttrIn(Heap, r, "errors")) + 1,
                       error_message |-> "error"]
             h1 == AppendAttr(Heap, r, "errors", error)
             h2 == AppendAttr(h1, r, "error_messages", "error")
         IN  StateOperation(r, SetAttr(h2, r, "last_error", "error"))

\* A wrapped node executed on the state dict of run r.
NodeExecutionOn ==
    /\ \E r \in RunNames, raises \in BOOLEAN :
         LET rs == run_states[r]
             out == WrapNode(rs.state, NodeFn(rs.node, rs.state, raises))
         IN  /\ rs.node \in Nodes
             /\ rs.steps < MaxRunSteps
             /\ ~out.exc
             /\ run_states' =
                   [run_states EXCEPT ![r] =
                       [state |-> out.state,
                        node |-> Successor(rs.node, out.state),
                        steps |-> rs.steps + 1]]
             /\ actor' = r
    /\ UNCHANGED <<class_lists, instances>>
    /\ UNCHANGED <<runVars, handleVars, collabVars, routeVars,
                   processVars, logVars, toolVars>>

\* Two objects made by AutomationWorkflowState(), nothing assigned on them,
\* and two state dicts about to enter stage 1.
SharedInit ==
    /\ class_lists = [f \in ClassListFields |-> <<>>]
    /\ instances = [r \in RunNames |-> <<>>]
    /\ run_states = [r \in RunNames |->
                        [state |-> CreatedState, node |-> "agent1", steps |-> 0]]
    /\ actor = "none"

SharedNext ==
    \/ UpdateCurrentAgentOn
    \/ AddSupervisorDecisionOn
    \/ StartCollaborationOn
    \/ AddErrorOn
    \/ NodeExecutionOn

InitShared ==
    /\ SharedInit /\ RunIdle /\ CollabIdle /\ RouteIdle /\ ProcessIdle
    /\ LogIdle /\ ToolsIdle

SpecShared == InitShared /\ [][SharedNext]_vars

\* C25: no operation performed on one run's state (a method of its state
\* object, appends to its list fields included, or a node execution on its
\* state dict) changes a field of the other run's state.
C25_RunsIsolated ==
    [][\A r \in RunNames :
          actor' = r
            => /\ ViewIn([cls |-> class_lists', inst |-> instances'], Other(r))
                    = ViewOf(Other(r))
               /\ run_states'[Other(r)] = run_states[Other(r)]]_vars

----------------------------------------------------------------------------
(* The initial state, the edges of the graph, the degraded run *)

\* C31: the state of a run created by create_initial_state has the four
\* per-agent statuses present and equal to pending before the first node
\* executes.
C31_InitialStatusesPending ==
    (initial_state = CreatedState /\ pc = "primary" /\ executed = <<>>)
        => \A a \in Stages :
               /\ StatusKey(a) \in DOMAIN state
               /\ state[StatusKey(a)] = "pending"

\* C32: every graph execution that reaches the terminal node has executed
\* stage 4, and stage 4 was the node executed last.
C32_ReportingAlwaysRuns ==
    (pc \in {"primary", "fallback"} /\ node = "END")
        => /\ "agent4" \in Range(CurrentExecution)
           /\ lastExec.node = "agent4"

\* Stage 2 raised, the supervisor sent the run on to stage 3, stage 3
\* raised too, and the run ended after stage 4.
C32_Witness ==
    /\ node = "END"
    /\ CurrentExecution = <<"agent1", "agent2", "supervisor", "agent3", "agent4">>
    /\ state["agent2_status"] = "failed"
    /\ state["agent3_status"] = "failed"

\* The edges _build_workflow_graph adds, as pairs (from, to).
FixedEdges ==
    {<<"agent1", "agent2">>, <<"agent1", "supervisor">>,
     <<"agent2", "agent3">>, <<"agent2", "supervisor">>,
     <<"agent3", "agent4">>, <<"agent4", "END">>,
     <<"supervisor", "agent2">>, <<"supervisor", "agent3">>,
     <<"supervisor", "agent4">>, <<"supervisor", "END">>}

\* C33: every transition a run takes is one of the fixed edges: a node
\* executed after another node of the run is a successor of that node, and
\* the terminal node is entered from stage 4 or from the supervisor.
C33_OnlyFixedEdges ==
    [][/\ (Len(executed') > Len(executed) /\ executed # <<>>)
            => <<executed[Len(executed)], executed'[Len(executed')]>>
                  \in FixedEdges
       /\ (node' = "END" /\ node # "END")
            => <<executed'[Len(executed')], "END">> \in FixedEdges]_vars

----------------------------------------------------------------------------
(* The collaboration latch and counter *)

ActiveSessions(history) ==
    {i \in 1..Len(history) : history[i]["status"] = "active"}

\* C35: collaboration_active is true exactly when some session of
\* collaboration_history has status active, and at most one session has
\* status active.
C35_LatchAgreesWithSessions ==
    /\ collaboration_active <=> ActiveSessions(collaboration_history) # {}
    /\ Cardinality(ActiveSessions(collaboration_history)) <= 1

\* C36: on every state object, collaboration_count equals the number of
\* sessions in collaboration_history, the sessions are in creation order
\* and their session_id values are pairwise distinct.
C36_CountMatchesSessions ==
    \A r \in RunNames :
        LET history == AttrIn(Heap, r, "collaboration_history")
        IN  /\ AttrIn(Heap, r, "collaboration_count") = Len(history)
            /\ \A i, j \in 1..Len(history) :
                  i < j => history[i].session_id < history[j].session_id

\* C38: resume_workflow returns success only if a checkpoint was found and
\* the resumed graph execution ran to the terminal node without raising;
\* when the resumed execution raises, the result reports failure.
C38_ResumeSuccessMeansResumed ==
    (Resumed /\ resumeResult.kind = "success") =>
        /\ resumeCall.from >= 1
        /\ node = "END"
        /\ "resume_status" \in DOMAIN resumeResult
        /\ resumeResult["resume_status"] = "resumed_success"

\* C37: the manager's checkpointer field is set exactly when its compiled
\* graph was compiled with a checkpointer, in every state reachable by
\* initialize_graph, execute_workflow and close, so that execute_workflow
\* passes a checkpoint configuration exactly when the graph it invokes
\* requires one, also for a run started after close.
C37_CheckpointerMatchesGraph ==
    checkpointer <=> graph = "checkpointed"

----------------------------------------------------------------------------
(* Tool-execution tracking of one state object (workflow_state.py) *)

\* The number of tool executions logged on one state object.
MaxTools == 3

\* f"tool_{n}"
ExecutionId(n) == <<"tool_", n>>

\* The execution_status a caller passes to log_tool_execution, and to
\* update_tool_execution ("running" standing for any value other than
\* completed and failed).
LogStatuses == {"started", "completed", "failed"}
UpdateStatuses == {"completed", "failed", "running"}

\* The ids a caller passes to update_tool_execution: those handed out so
\* far and one that was never handed out.
KnownIds == {ExecutionId(n) : n \in 1..(Len(tool_executions) + 1)}

\* The execution dict log_tool_execution builds.
NewExecution(n, execution_status) ==
    [execution_id |-> ExecutionId(n),
     agent_name |-> "agent",
     tool_name |-> "tool",
     execution_status |-> execution_status]

\* log_tool_execution: the dict is appended to the list and, when its
\* status is started, the same dict is stored in active_tools under its id.
AfterLog(executions, active, execution_status) ==
    LET n == Len(executions) + 1
    IN  [tool_executions |-> Append(executions, NewExecution(n, execution_status)),
         active_tools |->
            IF execution_status = "started"
            THEN Update(active, [k \in {ExecutionId(n)} |-> n])
            ELSE active]

\* The position of the first dict of the list with this id, 0 if none.
FirstWith(executions, execution_id) ==
    LET hits == {i \in 1..Len(executions) :
                    executions[i]["execution_id"] = execution_id}
    IN  IF hits = {} THEN 0
        ELSE CHOOSE i \in hits : \A j \in hits : i <= j

\* update_tool_execution that removes the id from active_tools only when
\* the new status is completed.
AfterUpdateKeepingFailed(executions, active, execution_id, execution_status) ==
    LET i == FirstWith(executions, execution_id)
    IN  [tool_executions |->
            IF i = 0 THEN executions
            ELSE [executions EXCEPT ![i] =
                     Update(@, [tool_output |-> "output",
                                execution_status |-> execution_status])],
         active_tools |->
            IF execution_status = "completed" /\ execution_id \in DOMAIN active
            THEN [k \in DOMAIN active \ {execution_id} |-> active[k]]
            ELSE active]

\* update_tool_execution: the first dict of the list with this id gets the
\* output and the status; the id is removed from active_tools when the
\* status is completed or failed.
AfterUpdate(executions, active, execution_id, execution_status) ==
    LET i == FirstWith(executions, execution_id)
    IN  [tool_executions |->
            IF i = 0 THEN executions
            ELSE [executions EXCEPT ![i] =
                     Update(@, [tool_output |-> "output",
                                execution_status |-> execution_status])],
         active_tools |->
            IF /\ execution_status \in {"completed", "failed"}
               /\ execution_id \in DOMAIN active
            THEN [k \in DOMAIN active \ {execution_id} |-> active[k]]
            ELSE active]

LogToolExecution ==
    /\ Len(tool_executions) < MaxTools
    /\ \E execution_status \in LogStatuses :
         LET after == AfterLog(tool_executions, active_tools, execution_status)
         IN  /\ tool_executions' = after.tool_executions
             /\ active_tools' = after.active_tools
    /\ UNCHANGED <<runVars, handleVars, collabVars, routeVars, processVars,
                   sharedVars, logVars>>

UpdateToolExecution ==
    /\ \E execution_id \in KnownIds, execution_status \in UpdateStatuses :
         LET after == AfterUpdate(tool_executions, active_tools,
                                  execution_id, execution_status)
         IN  /\ tool_executions' = after.tool_executions
             /\ active_tools' = after.active_tools
    /\ UNCHANGED <<runVars, handleVars, collabVars, routeVars, processVars,
                   sharedVars, logVars>>

ToolsNext ==
    \/ LogToolExecution
    \/ UpdateToolExecution

InitTools ==
    /\ ToolsIdle /\ RunIdle /\ CollabIdle /\ RouteIdle
    /\ ProcessIdle /\ SharedIdle /\ LogIdle

SpecTools == InitTools /\ [][ToolsNext]_vars

\* The dict stored in active_tools under an id.
ActiveTool(execution_id) == tool_executions[active_tools[execution_id]]

\* C39: after any sequence of log_tool_execution and update_tool_execution
\* calls, every key of active_tools is the execution_id of an entry of
\* tool_executions, the execution_id values are pairwise distinct, and no
\* entry in active_tools has execution_status completed or failed.
C39_ToolTrackingConsistent ==
    /\ \A k \in DOMAIN active_tools :
          /\ \E i \in 1..Len(tool_executions) :
                tool_executions[i]["execution_id"] = k
          /\ ActiveTool(k)["execution_status"] \notin {"completed", "failed"}
    /\ \A i, j \in 1..Len(tool_executions) :
          i # j => tool_executions[i]["execution_id"]
                      # tool_executions[j]["execution_id"]

\* Two tools were started, the first was updated to failed, the second is
\* still being executed.
C39_Witness ==
    /\ Len(tool_executions) = 2
    /\ tool_executions[1]["execution_status"] = "failed"
    /\ "tool_output" \in DOMAIN tool_executions[1]
    /\ DOMAIN active_tools = {ExecutionId(2)}
    /\ ActiveTool(ExecutionId(2))["execution_status"] = "started"


====
